---- MODULE Spec2Model ----
(***************************************************************************)
(* Model of the book resource handlers of src/main.rs (tide + sqlx) and of  *)
(* the single table `book` they operate on.                                 *)
(*                                                                          *)
(* Every handler touches the shared store with exactly one SQL statement,   *)
(* which the store executes atomically; everything before it (decoding the  *)
(* body, parsing the path id) and after it (rendering the response) is      *)
(* local to the request.  One action therefore models one whole handler,    *)
(* taken at the moment its statement runs.                                  *)
(*                                                                          *)
(* Option<T> is modelled as a set: None = {}, Some(v) = {v}.                *)
(* Result<T, E> of the parsers likewise: Err = {}, Ok(v) = {v}.             *)
(***************************************************************************)
EXTENDS Bags, FiniteSets, Integers, Naturals, Sequences, TLC

VARIABLES
    store,      \* the table `book`: a bag of rows
    pre,        \* the table as it was when the last request arrived
    req,        \* the last request: operation, path parameter, body
    resp,       \* the response to it: status and body
    outcome,    \* what the store reported for the request's statement
    stmts,      \* number of statements the request issued
    issued,     \* the statements the request issued, in order
    panicked,   \* the handler unwound on `unwrap()`: no response was sent
    created,    \* per id: the Book of the last create answered 201 that no
                \* later update or delete statement has addressed
    flight      \* per client: its request in flight and, once handled, the answer

vars == <<store, pre, req, resp, outcome, stmts, issued, panicked, created, flight>>

----------------------------------------------------------------------------
(* Bounds *)

NumIds == 2

Uuids == 1 .. NumIds

NumClients == 2

Clients == 1 .. NumClients

----------------------------------------------------------------------------
(* Identifier text.  Uuid::parse_str accepts several textual forms of the   *)
(* same value; serialisation always writes the hyphenated form.             *)

Forms == {"hyphenated", "simple"}

IdText(form, u) == [form |-> form, u |-> u]

Garbage == [form |-> "garbage", u |-> 0]

NoPath == [form |-> "none", u |-> 0]

\* The texts a client sends: every id in hyphenated form, the first id also
\* in simple form, and one text that is no identifier.
IdTexts ==
    {IdText("hyphenated", u) : u \in Uuids} \cup {IdText("simple", 1)} \cup {Garbage}

ParseStr(t) == IF t.form \in Forms THEN {t.u} ELSE {}

ToHyphenated(u) == IdText("hyphenated", u)

----------------------------------------------------------------------------
(* JSON values and the wire format of a Book *)

JNull == [t |-> "null"]

JStr(s) == [t |-> "string", v |-> s]

JNum(n) == [t |-> "number", v |-> n]

Some(s) == CHOOSE v \in s : TRUE

Field(obj, k) == IF k \in DOMAIN obj THEN {obj[k]} ELSE {}

\* Deserialize for Option<String>: a missing key and null are both None.
DeOptString(f) ==
    IF f = {} \/ f = {JNull} THEN {{}}
    ELSE IF Some(f).t = "string" THEN {{Some(f).v}}
    ELSE {}

\* Deserialize for Option<i32>
DeOptI32(f) ==
    IF f = {} \/ f = {JNull} THEN {{}}
    ELSE IF Some(f).t = "number" THEN {{Some(f).v}}
    ELSE {}

\* Deserialize for Uuid: the key is required and must hold identifier text.
DeUuid(f) ==
    IF f = {} THEN {}
    ELSE IF Some(f).t = "string" THEN ParseStr(Some(f).v)
    ELSE {}

\* #[derive(Deserialize)] for Book
DeserializeBook(obj) ==
    LET i == DeUuid(Field(obj, "id"))
        n == DeOptString(Field(obj, "name"))
        a == DeOptString(Field(obj, "author"))
        y == DeOptI32(Field(obj, "year"))
    IN  IF i = {} \/ n = {} \/ a = {} \/ y = {} THEN {}
        ELSE {[id |-> Some(i), name |-> Some(n), author |-> Some(a), year |-> Some(y)]}

SerOptString(o) == IF o = {} THEN JNull ELSE JStr(Some(o))

SerOptI32(o) == IF o = {} THEN JNull ELSE JNum(Some(o))

\* #[derive(Serialize)] for Book: all four keys are always written.
SerializeBook(b) ==
    [id |-> JStr(ToHyphenated(b.id)),
     name |-> SerOptString(b.name),
     author |-> SerOptString(b.author),
     year |-> SerOptI32(b.year)]

----------------------------------------------------------------------------
(* Request and response bodies *)

InvalidJson == [json |-> "invalid"]

JsonObject(obj) == [json |-> "object", obj |-> obj]

\* req.body_json(): Ok(book) or an error carrying status 422
body_json(body) ==
    IF body.json = "object" THEN DeserializeBook(body.obj) ELSE {}

EmptyBody == [kind |-> "empty"]

JsonBody(obj) == [kind |-> "json", obj |-> obj]

ArrayBody(items) == [kind |-> "array", items |-> items]

TextBody(s) == [kind |-> "text", text |-> s]

Response(status, body) == [status |-> status, body |-> body]

----------------------------------------------------------------------------
(* The store: table `book` (id, name, author, year) behind the pool.  A     *)
(* statement yields the table after it, the error it raised ("none" when it *)
(* ran) and the rows it returned.                                           *)

Matching(st, u) == {r \in BagToSet(st) : r.id = u}

Others(st, u) == [r \in {x \in BagToSet(st) : x.id # u} |-> st[r]]

Copies(st, u) == BagCardinality([r \in Matching(st, u) |-> st[r]])

StmtResult(sql, st, error, rows) ==
    [sql |-> sql, store |-> st, error |-> error, rows |-> rows]

\* `id` is the unique key of the table.
UniqueViolation(st, u) == Matching(st, u) # {}

\* Variant: name and author are bound in the wrong order.
InsertSql_Swapped(st, p1, p2, p3, p4) ==
    LET new == [id |-> p1, name |-> p3, author |-> p2, year |-> p4]
    IN  IF Matching(st, p1) # {}
        THEN StmtResult("insert", st, "unique_violation", {})
        ELSE StmtResult("insert", st (+) SetToBag({new}), "none", {new})

\* INSERT INTO book (id, name, author, year) VALUES ($1, $2, $3, $4)
\* RETURNING id, name, author, year
InsertSql(st, p1, p2, p3, p4) ==
    LET new == [id |-> p1, name |-> p2, author |-> p3, year |-> p4]
    IN  IF UniqueViolation(st, p1)
        THEN StmtResult("insert", st, "unique_violation", {})
        ELSE StmtResult("insert", st (+) SetToBag({new}), "none", {new})

\* Variant: only the first row comes back (LIMIT 1).
SelectAllSql_Limit1(st) ==
    StmtResult("select_all", st, "none",
               IF st = EmptyBag THEN EmptyBag ELSE SetToBag({Some(BagToSet(st))}))

\* SELECT * FROM book
SelectAllSql(st) == StmtResult("select_all", st, "none", st)

\* Variant: the WHERE clause is missing.
SelectByIdSql_NoWhere(st, p1) == StmtResult("select_by_id", st, "none", BagToSet(st))

\* SELECT * FROM book WHERE id = $1
SelectByIdSql(st, p1) == StmtResult("select_by_id", st, "none", Matching(st, p1))

\* Variant: a null parameter keeps the old value (SET name = COALESCE($2, name), ...).
UpdateSql_Coalesce(st, p1, p2, p3, p4) ==
    IF Matching(st, p1) = {}
    THEN StmtResult("update_by_id", st, "none", {})
    ELSE LET old == Some(Matching(st, p1))
             new == [id |-> p1,
                     name |-> IF p2 = {} THEN old.name ELSE p2,
                     author |-> IF p3 = {} THEN old.author ELSE p3,
                     year |-> IF p4 = {} THEN old.year ELSE p4]
         IN  StmtResult("update_by_id", Others(st, p1) (+) [x \in {new} |-> Copies(st, p1)],
                        "none", {new})

\* Variant: the author is not written (SET name = $2, year = $4).
UpdateSql_NoAuthor(st, p1, p2, p3, p4) ==
    IF Matching(st, p1) = {}
    THEN StmtResult("update_by_id", st, "none", {})
    ELSE LET old == Some(Matching(st, p1))
             new == [id |-> p1, name |-> p2, author |-> old.author, year |-> p4]
         IN  StmtResult("update_by_id",
                        Others(st, p1) (+) [x \in {new} |-> Copies(st, p1)],
                        "none", {new})

\* UPDATE book SET name = $2, author = $3, year = $4 WHERE id = $1
\* RETURNING id, name, author, year
UpdateSql(st, p1, p2, p3, p4) ==
    LET new == [id |-> p1, name |-> p2, author |-> p3, year |-> p4]
    IN  IF Matching(st, p1) = {}
        THEN StmtResult("update_by_id", st, "none", {})
        ELSE StmtResult("update_by_id", Others(st, p1) (+) [x \in {new} |-> Copies(st, p1)],
                        "none", {new})

\* Variant: the WHERE clause is missing, every row is deleted.
DeleteSql_All(st, p1) == StmtResult("delete_by_id", EmptyBag, "none", {})

\* DELETE FROM book WHERE id = $1        (no RETURNING clause: no rows come back)
DeleteSql(st, p1) == StmtResult("delete_by_id", Others(st, p1), "none", {})

\* Running a statement on the pool: when the store cannot be reached the
\* statement has no effect and the call fails.
Execute(up, st, result) ==
    IF up THEN result ELSE StmtResult(result.sql, st, "unreachable", {})

\* .fetch_one(): exactly one row, or an error
fetch_one(r) ==
    IF r.error # "none" THEN [err |-> r.error, row |-> {}]
    ELSE IF r.rows = {} THEN [err |-> "row_not_found", row |-> {}]
    ELSE [err |-> "none", row |-> {Some(r.rows)}]

\* .fetch_optional(): Some(first row) or None, or an error
fetch_optional(r) ==
    IF r.error # "none" THEN [err |-> r.error, row |-> {}]
    ELSE IF r.rows = {} THEN [err |-> "none", row |-> {}]
    ELSE [err |-> "none", row |-> {Some(r.rows)}]

\* .fetch_all(): every row
fetch_all(r) == [err |-> r.error, rows |-> r.rows]

----------------------------------------------------------------------------
(* The handlers.  Each yields the table after the request, the response,    *)
(* what the store reported, the number of statements issued and whether     *)
(* the handler panicked.                                                    *)

Done(st, response, oc, sqls) ==
    [store |-> st, resp |-> response, outcome |-> oc, stmts |-> Len(sqls),
     issued |-> sqls, panicked |-> FALSE]

\* `?` on an error: tide answers with the error's status and no body.
\* A body that does not decode carries 422, any other error 500.
Failed(st, status, oc, sqls) == Done(st, Response(status, EmptyBody), oc, sqls)

\* `.unwrap()` on Err: the handler unwinds and no response is written.
Panic(st) ==
    [store |-> st, resp |-> Response(0, EmptyBody), outcome |-> "none",
     stmts |-> 0, issued |-> << >>, panicked |-> TRUE]

\* Body::from_json(&Book)
BookJson(b) == JsonBody(SerializeBook(b))

\* Body::from_json(&Option<Book>): Some(b) is written as b, None as null
OptionBookJson(o) == IF o = {} THEN JsonBody(JNull) ELSE JsonBody(SerializeBook(Some(o)))

\* Variant: the inserted row is read back with a second statement.
create_book_ReadBack(st, path, body, up) ==
    LET book == body_json(body)
    IN  IF book = {} THEN Failed(st, 422, "none", << >>)
        ELSE
        LET b == Some(book)
            r == Execute(up, st, InsertSql(st, b.id, b.name, b.author, b.year))
            row == fetch_one(r)
        IN  IF row.err # "none" THEN Failed(r.store, 500, row.err, <<r.sql>>)
            ELSE
            LET r2 == Execute(up, r.store, SelectByIdSql(r.store, b.id))
                row2 == fetch_one(r2)
            IN  Done(r2.store, Response(201, BookJson(Some(row2.row))), "row",
                     <<r.sql, r2.sql>>)

create_book(st, path, body, up) ==
    LET book == body_json(body)
    IN  IF book = {} THEN Failed(st, 422, "none", << >>)
        ELSE
        LET b == Some(book)
            r == Execute(up, st, InsertSql(st, b.id, b.name, b.author, b.year))
            row == fetch_one(r)
        IN  IF row.err # "none" THEN Failed(r.store, 500, row.err, <<r.sql>>)
            ELSE Done(r.store, Response(201, BookJson(Some(row.row))), "row", <<r.sql>>)

\* Body::from_json(&Vec<Book>): a bare array with one object per row
\* (the order of the rows is the store's and is not modelled).
BooksJson(rows) ==
    ArrayBody([o \in {SerializeBook(b) : b \in BagToSet(rows)} |->
                 BagCardinality([b \in {x \in BagToSet(rows) : SerializeBook(x) = o}
                                   |-> rows[b]])])

list_books(st, path, body, up) ==
    LET r == Execute(up, st, SelectAllSql(st))
        rows == fetch_all(r)
    IN  IF rows.err # "none" THEN Failed(r.store, 500, rows.err, <<r.sql>>)
        ELSE Done(r.store, Response(200, BooksJson(rows.rows)),
                  IF rows.rows = EmptyBag THEN "empty" ELSE "row", <<r.sql>>)

\* Variant: an absent row is answered 200 with the body `null`.
get_render_NullBody(row) == Response(200, OptionBookJson(row))

\* match row { Some(_) => 200 with the row, None => 404 }
get_render(row) ==
    IF row # {} THEN Response(200, OptionBookJson(row)) ELSE Response(404, EmptyBody)

get_book(st, path, body, up) ==
    LET id == ParseStr(path)
    IN  IF id = {} THEN Panic(st)
        ELSE
        LET r == Execute(up, st, SelectByIdSql(st, Some(id)))
            row == fetch_optional(r)
        IN  IF row.err # "none" THEN Failed(r.store, 500, row.err, <<r.sql>>)
            ELSE Done(r.store, get_render(row.row),
                      IF row.row = {} THEN "empty" ELSE "row", <<r.sql>>)

\* match row { Some(_) => 200 with the row, None => 404 }
update_render(row) ==
    IF row # {} THEN Response(200, OptionBookJson(row)) ELSE Response(404, EmptyBody)

\* Variant: the path id is parsed before the body is decoded.
update_book_IdFirst(st, path, body, up) ==
    LET id == ParseStr(path)
    IN  IF id = {} THEN Panic(st)
        ELSE
        LET book == body_json(body)
        IN  IF book = {} THEN Failed(st, 422, "none", << >>)
            ELSE
            LET b == Some(book)
                r == Execute(up, st, UpdateSql(st, Some(id), b.name, b.author, b.year))
                row == fetch_optional(r)
            IN  IF row.err # "none" THEN Failed(r.store, 500, row.err, <<r.sql>>)
                ELSE Done(r.store, update_render(row.row),
                          IF row.row = {} THEN "empty" ELSE "row", <<r.sql>>)

\* Variant: the statement addresses the id of the body, not of the path.
update_book_BodyId(st, path, body, up) ==
    LET book == body_json(body)
    IN  IF book = {} THEN Failed(st, 422, "none", << >>)
        ELSE
        LET id == ParseStr(path)
        IN  IF id = {} THEN Panic(st)
            ELSE
            LET b == Some(book)
                r == Execute(up, st, UpdateSql(st, b.id, b.name, b.author, b.year))
                row == fetch_optional(r)
            IN  IF row.err # "none" THEN Failed(r.store, 500, row.err, <<r.sql>>)
                ELSE Done(r.store, update_render(row.row),
                          IF row.row = {} THEN "empty" ELSE "row", <<r.sql>>)

update_book(st, path, body, up) ==
    LET book == body_json(body)
    IN  IF book = {} THEN Failed(st, 422, "none", << >>)
        ELSE
        LET id == ParseStr(path)
        IN  IF id = {} THEN Panic(st)
            ELSE
            LET b == Some(book)
                r == Execute(up, st, UpdateSql(st, Some(id), b.name, b.author, b.year))
                row == fetch_optional(r)
            IN  IF row.err # "none" THEN Failed(r.store, 500, row.err, <<r.sql>>)
                ELSE Done(r.store, update_render(row.row),
                          IF row.row = {} THEN "empty" ELSE "row", <<r.sql>>)

\* match row { Some(_) => 204, None => 404 }
delete_render(row) ==
    IF row # {} THEN Response(204, EmptyBody) ELSE Response(404, EmptyBody)

\* Variant: an error of the store is answered like an absent row.
delete_book_ErrAs404(st, path, body, up) ==
    LET id == ParseStr(path)
    IN  IF id = {} THEN Panic(st)
        ELSE
        LET r == Execute(up, st, DeleteSql(st, Some(id)))
            row == fetch_optional(r)
        IN  IF row.err # "none"
            THEN Done(r.store, Response(404, EmptyBody), row.err, <<r.sql>>)
            ELSE Done(r.store, delete_render(row.row),
                      IF row.row = {} THEN "empty" ELSE "row", <<r.sql>>)

delete_book(st, path, body, up) ==
    LET id == ParseStr(path)
    IN  IF id = {} THEN Panic(st)
        ELSE
        LET r == Execute(up, st, DeleteSql(st, Some(id)))
            row == fetch_optional(r)
        IN  IF row.err # "none" THEN Failed(r.store, 500, row.err, <<r.sql>>)
            ELSE Done(r.store, delete_render(row.row),
                      IF row.row = {} THEN "empty" ELSE "row", <<r.sql>>)

\* app.at("/").get(|_| async {Ok("Hello, world!")})
index(st, path, body, up) ==
    Done(st, Response(200, TextBody("Hello, world!")), "none", << >>)

----------------------------------------------------------------------------
(* Requests a client can send *)

NoBody == [json |-> "none"]

\* The name/author/year part of a body: fields present, null and missing,
\* and one that does not fit the field's type.
FieldParts ==
    { [name |-> JStr("Dune"), author |-> JStr("Herbert"), year |-> JNum(1965)],
      [name |-> JNull, year |-> JNum(1965)],
      << >>,
      [name |-> JStr("Dune"), author |-> JNull, year |-> JStr("1965")] }

\* The id part of a body: any identifier text, or no id at all.
IdParts == {[id |-> JStr(t)] : t \in IdTexts} \cup {<< >>}

Bodies == {JsonObject(i @@ f) : i \in IdParts, f \in FieldParts} \cup {InvalidJson}

\* The bodies sent with an update.  The handler decodes the id of the body and
\* never uses it: it is the first id, the second id, or left out.
UpdateBodies ==
    {JsonObject(i @@ f) :
        i \in {[id |-> JStr(ToHyphenated(u))] : u \in Uuids \cap {1, 2}} \cup {<< >>},
        f \in FieldParts}
    \cup {InvalidJson}

Request(op, path, body) == [op |-> op, path |-> path, body |-> body]

----------------------------------------------------------------------------
(* State machine *)

NoRequest == Request("none", NoPath, NoBody)

\* A client with no request in flight.
Idle ==
    [pc |-> "idle", req |-> NoRequest, resp |-> Response(0, EmptyBody),
     found |-> FALSE, raced |-> FALSE]

Init ==
    /\ store = EmptyBag
    /\ pre = EmptyBag
    /\ req = NoRequest
    /\ resp = Response(0, EmptyBody)
    /\ outcome = "none"
    /\ stmts = 0
    /\ issued = << >>
    /\ panicked = FALSE
    /\ created = [u \in Uuids |-> {}]
    /\ flight = [c \in Clients |-> Idle]

\* Bookkeeping of `created` for a request and its result h.
CreatedAfter(op, path, body, h) ==
    IF op = "create" /\ h.resp.status = 201
    THEN [created EXCEPT ![Some(body_json(body)).id] = body_json(body)]
    ELSE IF op \in {"update", "delete"} /\ h.stmts = 1 /\ h.outcome # "unreachable"
    THEN [created EXCEPT ![Some(ParseStr(path))] = {}]
    ELSE created

Handle(op, path, body, h) ==
    /\ pre' = store
    /\ req' = Request(op, path, body)
    /\ store' = h.store
    /\ resp' = h.resp
    /\ outcome' = h.outcome
    /\ stmts' = h.stmts
    /\ issued' = h.issued
    /\ panicked' = h.panicked
    /\ created' = CreatedAfter(op, path, body, h)

\* A request handled from arrival to answer with no other request in between.
Serve(op, path, body, h) ==
    /\ Handle(op, path, body, h)
    /\ UNCHANGED flight

\* POST /books
CreateBook ==
    \E body \in Bodies, up \in BOOLEAN :
        Serve("create", NoPath, body, create_book(store, NoPath, body, up))

\* GET /books
ListBooks ==
    \E up \in BOOLEAN :
        Serve("list", NoPath, NoBody, list_books(store, NoPath, NoBody, up))

\* GET /books/:id
GetBook ==
    \E path \in IdTexts, up \in BOOLEAN :
        Serve("get", path, NoBody, get_book(store, path, NoBody, up))

\* PUT /books/:id
UpdateBook ==
    \E path \in IdTexts, body \in UpdateBodies, up \in BOOLEAN :
        Serve("update", path, body, update_book(store, path, body, up))

\* DELETE /books/:id
DeleteBook ==
    \E path \in IdTexts, up \in BOOLEAN :
        Serve("delete", path, NoBody, delete_book(store, path, NoBody, up))

\* GET /
Index == Serve("index", NoPath, NoBody, index(store, NoPath, NoBody, TRUE))

Next ==
    \/ CreateBook
    \/ ListBooks
    \/ GetBook
    \/ UpdateBook
    \/ DeleteBook
    \/ Index

Spec == Init /\ [][Next]_vars

----------------------------------------------------------------------------
(* Requests in flight.  The server handles every request in a task of its    *)
(* own; a handler can be suspended while it reads the body and while it      *)
(* waits for the store, so several requests are in flight at once and their  *)
(* statements reach the store in any order.  Arrive puts a request in        *)
(* flight, Run is its handler from decoding to the answer, taken at the      *)
(* moment the store executes its statement; it records whether the id it     *)
(* addresses was in the table then (found) and whether another request on    *)
(* the same id was in flight then (raced).                                   *)

\* The routes of server(): the handler of an operation.
Dispatch(op, st, path, body, up) ==
    CASE op = "create" -> create_book(st, path, body, up)
      [] op = "list" -> list_books(st, path, body, up)
      [] op = "get" -> get_book(st, path, body, up)
      [] op = "update" -> update_book(st, path, body, up)
      [] op = "delete" -> delete_book(st, path, body, up)
      [] op = "index" -> index(st, path, body, up)

\* The ids a request addresses: the body id for create, the path id otherwise.
Target(r) ==
    IF r.op = "create" THEN {b.id : b \in body_json(r.body)}
    ELSE IF r.op \in {"get", "update", "delete"} THEN ParseStr(r.path)
    ELSE {}

\* Bodies of the requests that race: two Books that differ in name and author.
RaceFieldParts ==
    { [name |-> JStr("Dune"), author |-> JStr("Herbert"), year |-> JNum(1965)],
      [name |-> JNull, year |-> JNum(1965)] }

RaceBodies(u) == {JsonObject([id |-> JStr(ToHyphenated(u))] @@ f) : f \in RaceFieldParts}

\* The requests in flight: a create, both updates and a delete on the first
\* id, and a create on each other id, so that other records stand by.
RaceRequests ==
    {Request("create", NoPath, JsonObject([id |-> JStr(ToHyphenated(u))])) : u \in Uuids}
    \cup {Request("update", ToHyphenated(1), b) : b \in RaceBodies(1)}
    \cup {Request("delete", ToHyphenated(1), NoBody)}

Arrive(c) ==
    /\ flight[c].pc \in {"idle", "done"}
    /\ \E r \in RaceRequests :
           flight' = [flight EXCEPT ![c] = [Idle EXCEPT !.pc = "pending", !.req = r]]
    /\ UNCHANGED <<store, pre, req, resp, outcome, stmts, issued, panicked, created>>

\* The store is reachable here; Spec covers the statements that fail.
Run(c) ==
    /\ flight[c].pc = "pending"
    /\ LET r == flight[c].req
           h == Dispatch(r.op, store, r.path, r.body, TRUE)
       IN  /\ store' = h.store
           /\ flight' = [flight EXCEPT ![c] =
                [pc |-> "done", req |-> r, resp |-> h.resp,
                 found |-> \E u \in Target(r) : Matching(store, u) # {},
                 raced |-> \E d \in Clients \ {c} :
                               /\ flight[d].pc = "pending"
                               /\ Target(flight[d].req) = Target(r)]]
    /\ UNCHANGED <<pre, req, resp, outcome, stmts, issued, panicked, created>>

NextConc == \E c \in Clients : Arrive(c) \/ Run(c)

SpecConc == Init /\ [][NextConc]_vars

----------------------------------------------------------------------------
(* Properties.  They speak of the last request (req), the table before it   *)
(* (pre) and after it (store), and the response (resp).  "The store was     *)
(* reachable" is outcome # "unreachable".                                   *)

PathId == ParseStr(req.path)

Submitted == body_json(req.body)

Reached == outcome # "unreachable"

\* C1: a get on an id whose last create was answered 201, with no update or
\* delete statement on that id in between, is answered 200 with a record that
\* decodes to the Book submitted to that create, null fields included.
Thm_C1_RoundTrip ==
    \A u \in PathId :
        (req.op = "get" /\ created[u] # {} /\ Reached)
        => /\ resp.status = 200
           /\ ~panicked
           /\ resp.body.kind = "json"
           /\ DeserializeBook(resp.body.obj) = created[u]

Witness_C1 ==
    \E u \in PathId :
        /\ req.op = "get"
        /\ created[u] # {}
        /\ Some(created[u]).name = {}
        /\ Some(created[u]).year # {}
        /\ resp.status = 200

\* C2: a delete of an id that is in the table when the statement runs is
\* answered 204 with an empty body.
Claim_C2_DeletePresent204 ==
    \A u \in PathId :
        (req.op = "delete" /\ Matching(pre, u) # {} /\ Reached)
        => resp = Response(204, EmptyBody)

\* C3: get, update and delete are answered 404 only if no record with the
\* path id was in the table when the statement ran.
Claim_C3_NotFoundOnlyIfAbsent ==
    (req.op \in {"get", "update", "delete"} /\ resp.status = 404)
    => \A u \in PathId : Matching(pre, u) = {}

\* C4: get, update (with a decodable body) and delete on a well-formed id
\* that is not in the table are answered 404 with an empty body and leave
\* the table as it was.
Thm_C4_NotFoundSymmetry ==
    \A u \in PathId :
        (/\ req.op \in {"get", "update", "delete"}
         /\ (req.op = "update" => Submitted # {})
         /\ Matching(pre, u) = {}
         /\ Reached)
        => /\ resp = Response(404, EmptyBody)
           /\ ~panicked
           /\ store = pre

Witness_C4 ==
    \E u \in PathId :
        /\ req.op = "get"
        /\ Matching(pre, u) = {}
        /\ pre # EmptyBag
        /\ created[u] = {}
        /\ resp.status = 404

\* C6: a create whose id is already in the table leaves the table as it was
\* and is answered with a 4xx status other than the one of validation errors.
Claim_C6_DuplicateCreateConflict ==
    \A b \in Submitted :
        (req.op = "create" /\ Matching(pre, b.id) # {} /\ Reached)
        => /\ store = pre
           /\ resp.status \in 400 .. 499
           /\ resp.status \notin {400, 422}

\* C7: get, update and delete with a path id that is no identifier are
\* answered 400 without a panic and without a statement.
Claim_C7_MalformedIdIs400 ==
    (req.op \in {"get", "update", "delete"} /\ PathId = {})
    => /\ resp.status = 400
       /\ ~panicked
       /\ stmts = 0
       /\ store = pre

\* C8 as stated: create and update with a body that does not decode are
\* answered 400 without a statement.
Claim_C8_MalformedBodyIs400 ==
    (req.op \in {"create", "update"} /\ Submitted = {})
    => /\ resp.status = 400
       /\ stmts = 0
       /\ store = pre

\* C8 amended: create and update with a body that does not decode are
\* answered 422 without a panic and without a statement, the table is as it
\* was; for update whether or not the path id is well-formed.
Thm_C8_MalformedBodyIs422 ==
    (req.op \in {"create", "update"} /\ Submitted = {})
    => /\ resp = Response(422, EmptyBody)
       /\ ~panicked
       /\ stmts = 0
       /\ outcome = "none"
       /\ store = pre

Witness_C8 ==
    /\ req.op = "update"
    /\ Submitted = {}
    /\ PathId = {}
    /\ pre # EmptyBag
    /\ resp.status = 422

\* The body the claim C9 speaks of: a JSON object whose name, author and year
\* decode and whose id is any identifier or is missing.
IdIgnoredBody ==
    /\ req.body.json = "object"
    /\ DeserializeBook([id |-> JStr(req.path)] @@ req.body.obj) # {}
    /\ \/ Field(req.body.obj, "id") = {}
       \/ DeUuid(Field(req.body.obj, "id")) # {}

\* C9: an update on an id in the table, whatever id the body carries or
\* none, is answered 200 with the path id, the record keeps the path id and
\* the records with other ids are as they were.
Claim_C9_UpdatePreservesIdentity ==
    \A u \in PathId :
        (req.op = "update" /\ IdIgnoredBody /\ Matching(pre, u) # {} /\ Reached)
        => /\ resp.status = 200
           /\ resp.body.kind = "json"
           /\ DeUuid(Field(resp.body.obj, "id")) = {u}
           /\ Matching(store, u) # {}
           /\ Others(store, u) = Others(pre, u)

\* C10: a create with a decodable body whose id is not in the table is
\* answered 201 with a body that decodes to the submitted Book, and the
\* table then holds exactly one record with that id, equal to that Book.
Thm_C10_CreateFresh ==
    \A b \in Submitted :
        (req.op = "create" /\ Matching(pre, b.id) = {} /\ Reached)
        => /\ resp.status = 201
           /\ resp.body.kind = "json"
           /\ DeserializeBook(resp.body.obj) = {b}
           /\ Matching(store, b.id) = {b}
           /\ Copies(store, b.id) = 1
           /\ Others(store, b.id) = pre

Witness_C10 ==
    \E b \in Submitted :
        /\ req.op = "create"
        /\ Matching(pre, b.id) = {}
        /\ pre # EmptyBag
        /\ b.name # {} /\ b.author # {}
        /\ req.body.obj.id.v.form = "simple"
        /\ resp.status = 201

\* C11: an update with a decodable body on an id in the table is answered
\* 200 with the updated Book, and the record then carries the body's name,
\* author and year, a null or missing field being stored as null.
Thm_C11_UpdateReplacesAll ==
    \A u \in PathId : \A b \in Submitted :
        (req.op = "update" /\ Matching(pre, u) # {} /\ Reached)
        => LET new == [id |-> u, name |-> b.name, author |-> b.author, year |-> b.year]
           IN  /\ resp.status = 200
               /\ resp.body.kind = "json"
               /\ DeserializeBook(resp.body.obj) = {new}
               /\ Matching(store, u) = {new}
               /\ Copies(store, u) = Copies(pre, u)

Witness_C11 ==
    \E u \in PathId : \E b \in Submitted :
        /\ req.op = "update"
        /\ Matching(pre, u) # {}
        /\ Some(Matching(pre, u)).name # {}
        /\ Some(Matching(pre, u)).author # {}
        /\ "name" \in DOMAIN req.body.obj /\ b.name = {}
        /\ "author" \notin DOMAIN req.body.obj
        /\ resp.status = 200
        /\ Some(Matching(store, u)).author = {}

\* C12: a list is answered 200 with an array that holds one object for each
\* record in the table when the statement runs, decoding to that record, and
\* nothing else; on an empty table the array is empty.  The table is as it was.
Thm_C12_ListAll ==
    (req.op = "list" /\ Reached)
    => /\ resp.status = 200
       /\ resp.body.kind = "array"
       /\ BagCardinality(resp.body.items) = BagCardinality(pre)
       /\ \A b \in BagToSet(pre) :
              \E o \in BagToSet(resp.body.items) :
                  /\ DeserializeBook(o) = {b}
                  /\ DOMAIN o = {"id", "name", "author", "year"}
                  /\ resp.body.items[o] = pre[b]
                  /\ resp.body.items[o] = 1
       /\ (pre = EmptyBag => resp.body.items = EmptyBag)

Witness_C12 ==
    /\ req.op = "list"
    /\ resp.status = 200
    /\ BagCardinality(pre) = NumIds
    /\ \E b \in BagToSet(pre) : b.name = {} /\ b.author = {}

\* C15: when the store cannot execute the statement of a create, list, get,
\* update or delete, the request is answered with a 5xx status (never 404,
\* never 2xx) and the table is as it was.
Thm_C15_StoreFailureIs5xx ==
    (req.op \in {"create", "list", "get", "update", "delete"} /\ outcome = "unreachable")
    => /\ resp.status \in 500 .. 599
       /\ resp.body = EmptyBody
       /\ ~panicked
       /\ store = pre

Witness_C15 ==
    \E u \in PathId :
        /\ req.op = "delete"
        /\ outcome = "unreachable"
        /\ Matching(pre, u) = {}
        /\ pre # EmptyBag
        /\ resp.status = 500

\* The request passed decoding of the body and parsing of the path id.
Accepted ==
    /\ req.op \in {"create", "update"} => Submitted # {}
    /\ req.op \in {"get", "update", "delete"} => PathId # {}

StatementOf(op) ==
    CASE op = "create" -> "insert"
      [] op = "list" -> "select_all"
      [] op = "get" -> "select_by_id"
      [] op = "update" -> "update_by_id"
      [] op = "delete" -> "delete_by_id"

\* C16: a request issues at most one statement: exactly the one of its
\* operation when its body and path id are accepted, none when one of them
\* is rejected, and in that case the table is as it was.
Thm_C16_OneStatement ==
    req.op \in {"create", "list", "get", "update", "delete"}
    => /\ stmts = Len(issued)
       /\ stmts <= 1
       /\ Accepted => issued = <<StatementOf(req.op)>>
       /\ ~Accepted => (issued = << >> /\ store = pre)

Witness_C16 ==
    /\ req.op = "create"
    /\ Accepted
    /\ issued = <<"insert">>
    /\ resp.status = 201
    /\ pre # EmptyBag

\* C17: after a delete with a well-formed path id whose statement the store
\* executed, whatever the status of the answer, the table is the table
\* before it without the records of that id: the id is absent, a get on it
\* is answered 404, and the records of other ids are as they were.
Thm_C17_DeleteFrame ==
    \A u \in PathId :
        (req.op = "delete" /\ Reached)
        => /\ store = Others(pre, u)
           /\ Matching(store, u) = {}
           /\ get_book(store, req.path, NoBody, TRUE).resp = Response(404, EmptyBody)
           /\ \A v \in Uuids \ {u} :
                  Matching(store, v) = Matching(pre, v) /\ Copies(store, v) = Copies(pre, v)

Witness_C17 ==
    \E u \in PathId :
        /\ req.op = "delete"
        /\ Reached
        /\ Matching(pre, u) # {}
        /\ store # EmptyBag
        /\ resp.status = 404

----------------------------------------------------------------------------
(* Properties of requests in flight (SpecConc) *)

\* Client d's handler runs in this step.
Runs(d) == flight[d].pc = "pending" /\ flight'[d].pc = "done"

\* The Book a body decodes to, stored under id u.
BookOf(body, u) ==
    LET b == Some(body_json(body))
    IN  [id |-> u, name |-> b.name, author |-> b.author, year |-> b.year]

\* C13: of two creates with the same fresh id in flight together, the one
\* whose statement runs first is answered 201 and the other is answered
\* with a 4xx status; the table holds at most one record per id, and the
\* record of that id is the one the winner submitted.
Claim_C13_ConcurrentCreates ==
    [][\A c \in Clients : \A d \in Clients \ {c} : \A u \in Target(flight[d].req) :
         (/\ Runs(d)
          /\ flight[d].req.op = "create"
          /\ flight[c].pc = "done"
          /\ flight[c].req.op = "create"
          /\ Target(flight[c].req) = {u}
          /\ ~flight[c].found
          /\ flight[c].raced
          /\ Matching(store, u) = {BookOf(flight[c].req.body, u)})
         => /\ flight[c].resp.status = 201
            /\ flight'[d].resp.status \in 400 .. 499
            /\ \A v \in Uuids : Copies(store', v) <= 1
            /\ Matching(store', u) = {BookOf(flight[c].req.body, u)}]_vars

\* C14: when an update runs on an id in the table on which another update
\* has run before, both are answered 200 and the record then carries the
\* name, author and year of the update that ran last, all three together.
Thm_C14_ConcurrentUpdates ==
    [][\A c \in Clients : \A d \in Clients \ {c} : \A u \in Target(flight[d].req) :
         (/\ Runs(d)
          /\ flight[d].req.op = "update"
          /\ Matching(store, u) # {}
          /\ flight[c].pc = "done"
          /\ flight[c].req.op = "update"
          /\ Target(flight[c].req) = {u}
          /\ flight[c].found)
         => /\ flight[c].resp.status = 200
            /\ flight'[d].resp.status = 200
            /\ flight'[d].resp.body.kind = "json"
            /\ DeserializeBook(flight'[d].resp.body.obj) = {BookOf(flight[d].req.body, u)}
            /\ Matching(store', u) = {BookOf(flight[d].req.body, u)}
            /\ Copies(store', u) = 1]_vars

Witness_C14 ==
    \E c \in Clients : \E d \in Clients \ {c} : \E u \in Uuids :
        /\ flight[c].pc = "done" /\ flight[d].pc = "done"
        /\ flight[c].req.op = "update" /\ flight[d].req.op = "update"
        /\ Target(flight[c].req) = {u} /\ Target(flight[d].req) = {u}
        /\ flight[c].found /\ flight[d].found
        /\ flight[c].raced
        /\ flight[c].resp.status = 200 /\ flight[d].resp.status = 200
        /\ BookOf(flight[c].req.body, u) # BookOf(flight[d].req.body, u)
        /\ Matching(store, u) = {BookOf(flight[d].req.body, u)}

\* The records of the ids other than u are the same in tables s and t.
SameElsewhere(s, t, u) == Others(s, u) = Others(t, u)

\* C18: get and list (and a request that is rejected) leave the table as it
\* was; create changes at most the records of its body id, update and delete
\* at most the records of their path id.
Thm_C18_Frame ==
    /\ req.op \in {"get", "list", "index"} => store = pre
    /\ ~Accepted => store = pre
    /\ req.op = "create" => \A b \in Submitted : SameElsewhere(store, pre, b.id)
    /\ req.op \in {"update", "delete"} => \A u \in PathId : SameElsewhere(store, pre, u)

Witness_C18 ==
    \E u \in PathId : \E b \in Submitted :
        /\ req.op = "update"
        /\ b.id # u
        /\ Matching(pre, b.id) # {}
        /\ Matching(pre, u) # {}
        /\ Matching(store, u) # Matching(pre, u)
        /\ Matching(store, b.id) = Matching(pre, b.id)

\* C18, for requests in flight: a handler that runs changes at most the
\* records of the id its request addresses.
Frame_C18_InFlight ==
    [][\A d \in Clients :
         Runs(d) => \/ store' = store
                    \/ \E u \in Target(flight[d].req) :
                           /\ flight[d].req.op \in {"create", "update", "delete"}
                           /\ SameElsewhere(store', store, u)]_vars

====
